---- MODULE Spec2Model ----
(***************************************************************************)
(* Model of the AI prompt extension for CodeMirror                         *)
(* (frontend/src/core/codemirror/prompt/prompt.ts).                        *)
(*                                                                         *)
(* One editor session.  The program state is the editor document, the main *)
(* selection and the four state fields tooltipState, inputState,           *)
(* completionState and loadingState, plus the generation requests whose     *)
(* `await this.complete(...)` has not returned yet.  Every handler of the  *)
(* extension is one action: a handler runs to completion on the UI event   *)
(* loop, the only suspension point being the await in the Enter handler,   *)
(* which is split into submit (up to the await) and the continuation       *)
(* (after it).  Positions are 0-based offsets as in the editor; the        *)
(* document is a sequence of one-character strings.                        *)
(*                                                                         *)
(* The user typing into the document is not modelled: the document is only *)
(* changed by the extension itself (applying a result, rejecting it).      *)
(***************************************************************************)
EXTENDS Integers, Sequences, FiniteSets, Bags

\* ---------------------------------------------------------------- bounds
MaxDocLen == 2      \* longest document (a result is not applied beyond it)
MaxReq == 1         \* most generation requests awaiting their response
MaxTextLen == 4     \* longest document of the selection and input steps

NL == "\n"

\* The documents the editor is created with: one line, a line followed by
\* an empty line, an empty line followed by a line.
InitDocs == {<<"a", "a">>, <<"a", NL>>, <<NL, "a">>, <<NL, NL>>}

\* Every document of up to MaxTextLen characters.
Texts == UNION {[1..n -> {"a", NL}] : n \in 0..MaxTextLen}

\* The texts the completion capability returns.
Results == {<<>>, <<"a">>, <<"a", "a">>}

VARIABLES
    doc,              \* view.state.doc
    sel,              \* view.state.selection.main: [from, to]
    tooltipState,     \* StateField<boolean>
    inputState,       \* StateField<{show, from, to}>
    completionState,  \* StateField<{from, to, oldCode, newCode} | null>
    loadingState,     \* StateField<boolean>
    requests,         \* Enter handlers suspended at `await this.complete(...)`
    tooltip,          \* the module's one tooltip element: [view, shown]
    peer,             \* a second editor using the plugin
    last              \* history: the handler that ran last, what it returned

vars == <<doc, sel, tooltipState, inputState, completionState, loadingState,
          requests, tooltip, peer, last>>

Null == [null |-> TRUE]

\* `let tooltip` before its first use: no element, no listener.
noTooltip == [view |-> "none", shown |-> "none"]

\* A second editor that is never used.
noPeer == [doc |-> <<>>, sel |-> [from |-> 0, to |-> 0],
           tooltipState |-> FALSE,
           inputState |-> [show |-> FALSE, from |-> 0, to |-> 0]]

\* A step of the one editor leaves the tooltip element and the second editor
\* as they are: the listener of the element can only name this editor.
oneEditor == UNCHANGED <<tooltip, peer>>

Min(a, b) == IF a < b THEN a ELSE b
Max(a, b) == IF a > b THEN a ELSE b

\* ------------------------------------------------------- the host's text
\* doc.lineAt(pos).from: the offset after the last line break before pos.
lineFrom(d, pos) ==
    LET S == {i \in 1..pos : d[i] = NL}
    IN  IF S = {} THEN 0 ELSE CHOOSE i \in S : \A j \in S : j <= i

\* doc.lineAt(pos).to: the offset of the next line break at or after pos.
lineTo(d, pos) ==
    LET S == {i \in pos..(Len(d) - 1) : d[i + 1] = NL}
    IN  IF S = {} THEN Len(d) ELSE CHOOSE i \in S : \A j \in S : i <= j

\* doc.lineAt(pos).length
lineLength(d, pos) == lineTo(d, pos) - lineFrom(d, pos)

\* view.state.sliceDoc(from, to)
sliceDoc(d, from, to) == SubSeq(d, from + 1, to)

\* The document after the change {from, to, insert}.
replaceRange(d, from, to, insert) ==
    SubSeq(d, 1, from) \o insert \o SubSeq(d, to + 1, Len(d))

\* A change {from, to, insert} is accepted by the host only inside the
\* document; otherwise dispatch throws a RangeError.
validChange(d, from, to) == 0 <= from /\ from <= to /\ to <= Len(d)

\* ChangeDesc.mapPos for the single change [cf, ct) -> n inserted characters.
mapPos(pos, assoc, cf, ct, n) ==
    IF pos < cf THEN pos
    ELSE IF pos > ct \/ (pos = ct /\ ct > cf) THEN pos - (ct - cf) + n
    ELSE IF pos = cf /\ ct > cf THEN cf
    ELSE IF assoc < 0 THEN cf ELSE cf + n

\* The main selection mapped through a change that sets no selection.
mapSelection(s, cf, ct, n) ==
    IF s.from = s.to
    THEN LET p == mapPos(s.from, -1, cf, ct, n) IN [from |-> p, to |-> p]
    ELSE LET f == mapPos(s.from, 1, cf, ct, n)
             t == mapPos(s.to, -1, cf, ct, n)
         IN  [from |-> Min(f, t), to |-> Max(f, t)]

\* ------------------------------------------------------------ history
\* last: the handler that ran, its return value (for the continuation of an
\* Enter handler: whether its dispatch went through), the toasts it raised,
\* whether the input was open when it started, and for a continuation what
\* its request had seen, the result it was given and the document it found.
Ran(op, ret, toasts, seen, result, before) ==
    [op |-> op, ret |-> ret, toasts |-> toasts, open |-> inputState.show,
     seen |-> seen, result |-> result, before |-> before]

\* Each suspended request also carries, for the properties only, what has
\* happened to the input since its submit:
\*   "open"     it stayed open (so the document is as it was at submit: every
\*              step that changes the document also closes the input),
\*   "closed"   the user closed it (Escape, accept or reject),
\*   "applied"  it was closed only by another result being applied.
\* The suspended handlers form a bag: their order means nothing, responses
\* arrive in any order.
closedReq(r) == [r EXCEPT !.seen = "closed"]
appliedReq(r) == [r EXCEPT !.seen = IF @ = "open" THEN "applied" ELSE @]
markClosed(rs) == BagOfAll(closedReq, rs)
markApplied(rs) == BagOfAll(appliedReq, rs)
remove(rs, r) == rs (-) SetToBag({r})

cursor(pos) == [from |-> pos, to |-> pos]

\* ------------------------------------------------------------- the steps
Init ==
    /\ doc \in InitDocs
    /\ sel = cursor(0)
    /\ tooltipState = FALSE
    /\ inputState = [show |-> FALSE, from |-> 0, to |-> 0]
    /\ completionState = Null
    /\ loadingState = FALSE
    /\ requests = EmptyBag
    /\ tooltip = noTooltip
    /\ peer = noPeer
    /\ last = [op |-> "init", ret |-> FALSE, toasts |-> 0, open |-> FALSE,
               seen |-> "none", result |-> <<>>, before |-> <<>>]

\* The showTooltip value, computed without looking at the completion.
tooltipIgnoringCompletion(s, input, completion) ==
    s.from # s.to /\ ~input.show

\* The value the update listener dispatches with showTooltip after a
\* transaction that set the selection.
tooltipOnSelection(s, input, completion) ==
    s.from # s.to /\ ~input.show /\ completion = Null

\* The user moves or extends the selection; the update listener reacts.
selectionChange(from, to) ==
    /\ sel' = [from |-> from, to |-> to]
    /\ tooltipState' = tooltipOnSelection(sel', inputState, completionState)
    /\ last' = Ran("select", TRUE, 0, "none", <<>>, <<>>)
    /\ UNCHANGED <<doc, inputState, completionState, loadingState, requests>>

\* selectionPlugin.createDecorations: the first trimming loop.
RECURSIVE trimFrom(_, _, _)
trimFrom(d, adjustedFrom, adjustedTo) ==
    IF adjustedFrom < adjustedTo /\ lineLength(d, adjustedFrom) = 0
    THEN trimFrom(d, lineFrom(d, adjustedFrom + 1), adjustedTo)
    ELSE adjustedFrom

\* selectionPlugin.createDecorations: the second trimming loop.
RECURSIVE trimTo(_, _, _)
trimTo(d, adjustedFrom, adjustedTo) ==
    IF adjustedTo > adjustedFrom /\ lineLength(d, adjustedTo) = 0
    THEN trimTo(d, adjustedFrom, lineTo(d, adjustedTo - 1))
    ELSE adjustedTo

\* selectionPlugin.createDecorations: the tooltip's anchor, or -1 for
\* Decoration.none.
tooltipAnchor ==
    IF \/ sel.from = sel.to
       \/ inputState.show
       \/ completionState # Null
       \/ ~tooltipState
       \/ sel.from < 0
       \/ sel.to > Len(doc)
    THEN -1
    ELSE LET adjustedFrom == trimFrom(doc, sel.from, sel.to)
             adjustedTo == trimTo(doc, adjustedFrom, sel.to)
         IN  IF adjustedFrom = adjustedTo THEN -1 ELSE adjustedFrom

\* showInputPrompt, targeting the selection itself instead of its lines.
showInputPromptExact(op) ==
    IF sel.from = sel.to
    THEN /\ last' = Ran(op, FALSE, 0, "none", <<>>, <<>>)
         /\ UNCHANGED <<doc, sel, tooltipState, inputState, completionState,
                        loadingState, requests>>
    ELSE /\ inputState' = [show |-> TRUE, from |-> sel.from, to |-> sel.to]
         /\ sel' = cursor(sel.from)
         /\ tooltipState' =
                tooltipOnSelection(sel', inputState', completionState)
         /\ last' = Ran(op, TRUE, 0, "none", <<>>, <<>>)
         /\ UNCHANGED <<doc, completionState, loadingState, requests>>

\* showInputPrompt, without the test for an empty selection.
showInputPromptAlways(op) ==
    LET docLength == Len(doc)
        safeFrom == Max(0, Min(lineFrom(doc, sel.from), docLength))
        safeTo == Max(0, Min(lineTo(doc, sel.to), docLength))
    IN  /\ inputState' = [show |-> TRUE, from |-> safeFrom, to |-> safeTo]
        /\ sel' = cursor(safeFrom)
        /\ tooltipState' =
               tooltipOnSelection(sel', inputState', completionState)
        /\ last' = Ran(op, TRUE, 0, "none", <<>>, <<>>)
        /\ UNCHANGED <<doc, completionState, loadingState, requests>>

\* showInputPrompt(view), run by Mod-l and by a click on the tooltip.
showInputPrompt(op) ==
    IF sel.from # sel.to
    THEN LET docLength == Len(doc)
             safeFrom == Max(0, Min(lineFrom(doc, sel.from), docLength))
             safeTo == Max(0, Min(lineTo(doc, sel.to), docLength))
         IN  /\ inputState' = [show |-> TRUE, from |-> safeFrom, to |-> safeTo]
             /\ sel' = cursor(safeFrom)
             \* showTooltip.of(false), then the update listener's value
             /\ tooltipState' =
                    tooltipOnSelection(sel', inputState', completionState)
             /\ last' = Ran(op, TRUE, 0, "none", <<>>, <<>>)
             /\ UNCHANGED <<doc, completionState, loadingState, requests>>
    ELSE /\ last' = Ran(op, FALSE, 0, "none", <<>>, <<>>)
         /\ UNCHANGED <<doc, sel, tooltipState, inputState, completionState,
                        loadingState, requests>>

hotkey == showInputPrompt("hotkey")

tooltipClick == tooltipAnchor # -1 /\ showInputPrompt("click")

\* InputWidget keydown, Enter, up to the await: capture the target range and
\* its text, set loading, call complete(). The widget is drawn anew on every
\* update, so the input that the handler disables is no longer the one on
\* screen; at most limit requests await their response.
enter(limit) ==
    /\ inputState.show
    /\ BagCardinality(requests) < limit
    /\ LET state == inputState
           oldCode == sliceDoc(doc, state.from, state.to)
       IN  requests' = requests (+)
                           SetToBag({[from |-> state.from, to |-> state.to,
                                      oldCode |-> oldCode,
                                      seen |-> "open"]})
    /\ loadingState' = TRUE
    /\ last' = Ran("submit", TRUE, 0, "none", <<>>, <<>>)
    /\ UNCHANGED <<doc, sel, tooltipState, inputState, completionState>>

submit == enter(MaxReq)

\* Enter, with one request more than MaxReq allowed to await its response.
submitAgain == enter(MaxReq + 1)

\* Whether the dispatch of the result goes through: the host throws a
\* RangeError for a change outside the document and for a selection outside
\* the new document.
dispatchAccepted(d, state, result) ==
    /\ validChange(d, state.from, state.to)
    /\ state.to <= Len(replaceRange(d, state.from, state.to, result))

\* InputWidget keydown, Enter, after the await returned `result` to the
\* suspended handler that captured `state`.
continuation(state, result) ==
    LET rest == remove(requests, state)
    IN  IF ~inputState.show
        THEN \* the input was closed: return
             /\ requests' = rest
             /\ last' = Ran("resolve", FALSE, 0, state.seen, result, doc)
             /\ UNCHANGED <<doc, sel, tooltipState, inputState,
                            completionState, loadingState>>
        ELSE IF dispatchAccepted(doc, state, result)
        THEN /\ doc' = replaceRange(doc, state.from, state.to, result)
             /\ inputState' = [show |-> FALSE, from |-> state.from,
                               to |-> state.to]
             /\ completionState' = [from |-> state.from,
                                    to |-> state.from + Len(result),
                                    oldCode |-> state.oldCode,
                                    newCode |-> result]
             /\ loadingState' = FALSE
             /\ sel' = cursor(state.to)
             /\ tooltipState' =
                    tooltipOnSelection(sel', inputState', completionState')
             /\ requests' = markApplied(rest)
             /\ last' = Ran("resolve", TRUE, 0, state.seen, result, doc)
        ELSE \* dispatch threw: the catch block logs and toasts
             /\ requests' = rest
             /\ last' = Ran("resolve", FALSE, 1, state.seen, result, doc)
             /\ UNCHANGED <<doc, sel, tooltipState, inputState,
                            completionState, loadingState>>

\* failed, with the catch block applying nothing but raising no toast.
failedSilently(state) ==
    /\ requests' = remove(requests, state)
    /\ last' = Ran("fail", FALSE, 0, state.seen, <<>>, <<>>)
    /\ UNCHANGED <<doc, sel, tooltipState, inputState, completionState,
                   loadingState>>

\* InputWidget keydown, Enter, after the await threw in the suspended
\* handler that captured `state`: catch logs and toasts, finally touches the
\* widget's DOM only.
failed(state) ==
    /\ requests' = remove(requests, state)
    /\ last' = Ran("fail", FALSE, 1, state.seen, <<>>, <<>>)
    /\ UNCHANGED <<doc, sel, tooltipState, inputState, completionState,
                   loadingState>>

\* Escape, closing the input but leaving the loading flag as it is.
escapeKeepsLoading ==
    /\ inputState.show
    /\ inputState' = [show |-> FALSE, from |-> 0, to |-> 0]
    /\ requests' = markClosed(requests)
    /\ last' = Ran("escape", TRUE, 0, "none", <<>>, <<>>)
    /\ UNCHANGED <<doc, sel, tooltipState, completionState, loadingState>>

\* InputWidget keydown, Escape.
escape ==
    /\ inputState.show
    /\ inputState' = [show |-> FALSE, from |-> 0, to |-> 0]
    /\ loadingState' = FALSE
    /\ requests' = markClosed(requests)
    /\ last' = Ran("escape", TRUE, 0, "none", <<>>, <<>>)
    /\ UNCHANGED <<doc, sel, tooltipState, completionState>>

\* acceptCompletion, clearing the completion but not the input and loading.
acceptCompletionOnly ==
    IF completionState # Null
    THEN /\ completionState' = Null
         /\ last' = Ran("accept", TRUE, 0, "none", <<>>, <<>>)
         /\ UNCHANGED <<doc, sel, tooltipState, inputState, loadingState,
                        requests>>
    ELSE /\ last' = Ran("accept", FALSE, 0, "none", <<>>, <<>>)
         /\ UNCHANGED <<doc, sel, tooltipState, inputState, completionState,
                        loadingState, requests>>

\* acceptCompletion(view), run by Mod-y and by the accept button.
acceptCompletion ==
    IF completionState # Null
    THEN /\ completionState' = Null
         /\ inputState' = [show |-> FALSE, from |-> 0, to |-> 0]
         /\ loadingState' = FALSE
         /\ requests' = IF inputState.show THEN markClosed(requests)
                        ELSE requests
         /\ last' = Ran("accept", TRUE, 0, "none", <<>>, <<>>)
         /\ UNCHANGED <<doc, sel, tooltipState>>
    ELSE /\ last' = Ran("accept", FALSE, 0, "none", <<>>, <<>>)
         /\ UNCHANGED <<doc, sel, tooltipState, inputState, completionState,
                        loadingState, requests>>

\* rejectCompletion, without the guard on completionState: with no
\* completion it still dispatches the three clearing effects.
rejectCompletionUnguarded ==
    /\ completionState' = Null
    /\ inputState' = [show |-> FALSE, from |-> 0, to |-> 0]
    /\ loadingState' = FALSE
    /\ requests' = IF inputState.show THEN markClosed(requests) ELSE requests
    /\ last' = Ran("reject", completionState # Null, 0, "none", <<>>, <<>>)
    /\ IF completionState # Null
       THEN /\ validChange(doc, completionState.from, completionState.to)
            /\ doc' = replaceRange(doc, completionState.from,
                                   completionState.to, completionState.oldCode)
            /\ sel' = mapSelection(sel, completionState.from,
                                   completionState.to,
                                   Len(completionState.oldCode))
       ELSE UNCHANGED <<doc, sel>>
    /\ UNCHANGED tooltipState

\* rejectCompletion(view), run by Mod-u and by the reject button.
rejectCompletion ==
    IF completionState # Null
    THEN LET c == completionState
         IN  /\ validChange(doc, c.from, c.to)
             /\ doc' = replaceRange(doc, c.from, c.to, c.oldCode)
             /\ sel' = mapSelection(sel, c.from, c.to, Len(c.oldCode))
             /\ completionState' = Null
             /\ inputState' = [show |-> FALSE, from |-> 0, to |-> 0]
             /\ loadingState' = FALSE
             /\ requests' = IF inputState.show THEN markClosed(requests)
                            ELSE requests
             /\ last' = Ran("reject", TRUE, 0, "none", <<>>, <<>>)
             /\ UNCHANGED tooltipState
    ELSE /\ last' = Ran("reject", FALSE, 0, "none", <<>>, <<>>)
         /\ UNCHANGED <<doc, sel, tooltipState, inputState, completionState,
                        loadingState, requests>>

\* A result is delivered only if the document it would produce fits the
\* bound of the model.
fits(state, result) ==
    Len(doc) - (state.to - state.from) + Len(result) <= MaxDocLen

Next ==
    \/ \E from \in 0..Len(doc) : \E to \in from..Len(doc) :
           selectionChange(from, to) /\ oneEditor
    \/ hotkey /\ oneEditor
    \/ tooltipClick /\ oneEditor
    \/ submit /\ oneEditor
    \/ \E state \in BagToSet(requests) : \E result \in Results :
           fits(state, result) /\ continuation(state, result) /\ oneEditor
    \/ \E state \in BagToSet(requests) : failed(state) /\ oneEditor
    \/ escape /\ oneEditor
    \/ acceptCompletion /\ oneEditor
    \/ rejectCompletion /\ oneEditor

Spec == Init /\ [][Next]_vars

\* The editor with one more request allowed to await its response.
NextOverlap ==
    \/ \E from \in 0..Len(doc) : \E to \in from..Len(doc) :
           selectionChange(from, to) /\ oneEditor
    \/ hotkey /\ oneEditor
    \/ tooltipClick /\ oneEditor
    \/ submitAgain /\ oneEditor
    \/ \E state \in BagToSet(requests) : \E result \in Results :
           fits(state, result) /\ continuation(state, result) /\ oneEditor
    \/ \E state \in BagToSet(requests) : failed(state) /\ oneEditor
    \/ escape /\ oneEditor
    \/ acceptCompletion /\ oneEditor
    \/ rejectCompletion /\ oneEditor

SpecOverlap == Init /\ [][NextOverlap]_vars

\* The selection, tooltip and instruction input alone, on every document of
\* up to MaxTextLen characters: no instruction is submitted.
InitInput ==
    /\ doc \in Texts
    /\ sel = cursor(0)
    /\ tooltipState = FALSE
    /\ inputState = [show |-> FALSE, from |-> 0, to |-> 0]
    /\ completionState = Null
    /\ loadingState = FALSE
    /\ requests = EmptyBag
    /\ tooltip = noTooltip
    /\ peer = noPeer
    /\ last = [op |-> "init", ret |-> FALSE, toasts |-> 0, open |-> FALSE,
               seen |-> "none", result |-> <<>>, before |-> <<>>]

NextInput ==
    \/ \E from \in 0..Len(doc) : \E to \in from..Len(doc) :
           selectionChange(from, to) /\ oneEditor
    \/ hotkey /\ oneEditor
    \/ tooltipClick /\ oneEditor
    \/ escape /\ oneEditor

SpecInput == InitInput /\ [][NextInput]_vars

\* ------------------------------------------------- two editors, one tooltip
\* Two editors "A" (the variables doc, sel, ...) and "B" (peer) use the
\* plugin. The module keeps one tooltip element: tooltip.view is the editor
\* that the click listener names (the view whose createDecorations created
\* the element), tooltip.shown the editor whose widget drew it last.

\* createDecorations of the second editor.
peerAnchor(p) ==
    IF \/ p.sel.from = p.sel.to
       \/ p.inputState.show
       \/ ~p.tooltipState
       \/ p.sel.from < 0
       \/ p.sel.to > Len(p.doc)
    THEN -1
    ELSE LET adjustedFrom == trimFrom(p.doc, p.sel.from, p.sel.to)
             adjustedTo == trimTo(p.doc, adjustedFrom, p.sel.to)
         IN  IF adjustedFrom = adjustedTo THEN -1 ELSE adjustedFrom

\* The second editor after showInputPrompt.
peerPrompted(p) ==
    IF p.sel.from = p.sel.to
    THEN p
    ELSE LET docLength == Len(p.doc)
             safeFrom == Max(0, Min(lineFrom(p.doc, p.sel.from), docLength))
             safeTo == Max(0, Min(lineTo(p.doc, p.sel.to), docLength))
             input == [show |-> TRUE, from |-> safeFrom, to |-> safeTo]
         IN  [p EXCEPT !.inputState = input,
                       !.sel = cursor(safeFrom),
                       !.tooltipState =
                           tooltipOnSelection(cursor(safeFrom), input, Null)]

\* The tooltip element after the editor e has run createDecorations with the
\* result anchor: a decoration creates the element on first use, with a
\* listener naming e, and draws it in e; Decoration.none takes it off e.
drawn(e, anchor) ==
    IF anchor # -1
    THEN [view |-> IF tooltip.view = "none" THEN e ELSE tooltip.view,
          shown |-> e]
    ELSE [tooltip EXCEPT !.shown = IF @ = e THEN "none" ELSE @]

\* The user moves the selection of the second editor.
peerSelectionChange(from, to) ==
    /\ peer' = [peer EXCEPT
                   !.sel = [from |-> from, to |-> to],
                   !.tooltipState =
                       tooltipOnSelection([from |-> from, to |-> to],
                                          peer.inputState, Null)]
    /\ tooltip' = drawn("B", peerAnchor(peer'))
    /\ last' = Ran("peerSelect", TRUE, 0, "none", <<>>, <<>>)
    /\ UNCHANGED <<doc, sel, tooltipState, inputState, completionState,
                   loadingState, requests>>

\* showInputPrompt(view) for the editor e, as the operation op.
promptIn(e, op) ==
    IF e = "A"
    THEN /\ showInputPrompt(op)
         /\ tooltip' = drawn("A", tooltipAnchor')
         /\ peer' = peer
    ELSE /\ peer' = peerPrompted(peer)
         /\ tooltip' = drawn("B", peerAnchor(peer'))
         /\ last' = Ran(op, peer.sel.from # peer.sel.to, 0, "none", <<>>, <<>>)
         /\ UNCHANGED <<doc, sel, tooltipState, inputState, completionState,
                        loadingState, requests>>

\* A click on the tooltip element, drawn in the editor e: its listener runs
\* showInputPrompt for the editor it names.
clickIn(e, op) ==
    /\ tooltip.shown = e
    /\ promptIn(tooltip.view, op)

\* Escape in the input of the second editor.
peerEscape ==
    /\ peer.inputState.show
    /\ peer' = [peer EXCEPT
                   !.inputState = [show |-> FALSE, from |-> 0, to |-> 0]]
    /\ last' = Ran("peerEscape", TRUE, 0, "none", <<>>, <<>>)
    /\ UNCHANGED <<doc, sel, tooltipState, inputState, completionState,
                   loadingState, requests, tooltip>>

InitSessions ==
    /\ doc \in InitDocs
    /\ sel = cursor(0)
    /\ tooltipState = FALSE
    /\ inputState = [show |-> FALSE, from |-> 0, to |-> 0]
    /\ completionState = Null
    /\ loadingState = FALSE
    /\ requests = EmptyBag
    /\ tooltip = noTooltip
    /\ peer \in {[noPeer EXCEPT !.doc = d] : d \in InitDocs}
    /\ last = [op |-> "init", ret |-> FALSE, toasts |-> 0, open |-> FALSE,
               seen |-> "none", result |-> <<>>, before |-> <<>>]

NextSessions ==
    \/ \E from \in 0..Len(doc) : \E to \in from..Len(doc) :
           /\ selectionChange(from, to)
           /\ tooltip' = drawn("A", tooltipAnchor')
           /\ peer' = peer
    \/ \E from \in 0..Len(peer.doc) : \E to \in from..Len(peer.doc) :
           peerSelectionChange(from, to)
    \/ promptIn("A", "hotkey")
    \/ promptIn("B", "peerHotkey")
    \/ clickIn("A", "click")
    \/ clickIn("B", "peerClick")
    \/ escape /\ oneEditor
    \/ peerEscape

SpecSessions == InitSessions /\ [][NextSessions]_vars

\* ============================================================ the claims
idleInput == [show |-> FALSE, from |-> 0, to |-> 0]

\* A response arrived for a request whose input stayed open from its submit
\* to the arrival (so the document is the one of submit time).
arrivedFresh(l) == l.op = "resolve" /\ l.open /\ l.seen = "open"

\* C1: at most one of {tooltipState is true, inputState.show is true,
\* completionState is non-null} holds in every reachable state.
MutualExclusion ==
    /\ ~(tooltipState /\ inputState.show)
    /\ ~(tooltipState /\ completionState # Null)
    /\ ~(inputState.show /\ completionState # Null)

\* C2: the response to a request whose input the user closed after the
\* submit (Escape, accept or reject) changes neither the document nor the
\* completion record, even if the input has been opened again.
StaleResponseDiscarded ==
    [][(last'.op = "resolve" /\ last'.seen = "closed")
        => (doc' = doc /\ completionState' = completionState)]_vars

\* C3: once a request has failed, loading is false and the input is closed.
FailureResetsState ==
    last.op = "fail" => (~loadingState /\ ~inputState.show)

\* C4: the step that delivers a failure leaves the document and the
\* completion record as they were and raises exactly one notification.
FailureLeavesDocument ==
    [][last'.op = "fail"
        => (doc' = doc /\ completionState' = completionState
            /\ last'.toasts = 1)]_vars

\* C4 witness: a failure was delivered while the completion of an earlier
\* request was pending, and raised its one notification.
FailureDelivered ==
    last.op = "fail" /\ last.toasts = 1 /\ completionState # Null

\* C5: loading is true only while a request is outstanding.
LoadingOnlyWhileOutstanding ==
    loadingState => requests # EmptyBag

\* C6: when a response arrives while the input is still open, whatever the
\* length of the result, the target range is replaced by the result, the
\* input is closed, loading is false, and the completion record is
\* {from, from + length(result), text of the range at submit, result}, the
\* document at [from, to) being the result.
SuccessApplied ==
    [][arrivedFresh(last')
        => \E state \in BagToSet(requests) :
              LET result == last'.result
                  c == completionState'
              IN  /\ state.oldCode = sliceDoc(doc, state.from, state.to)
                  /\ doc' = replaceRange(doc, state.from, state.to, result)
                  /\ ~inputState'.show
                  /\ ~loadingState'
                  /\ c = [from |-> state.from,
                          to |-> state.from + Len(result),
                          oldCode |-> state.oldCode, newCode |-> result]
                  /\ sliceDoc(doc', c.from, c.to) = result]_vars

\* C7: after a result has been applied the cursor is at the completion
\* record's `to` and inside the document.
CursorAtCompletionEnd ==
    (last.op = "resolve" /\ last.ret)
        => (sel = cursor(completionState.to) /\ sel.to <= Len(doc))

\* C8: a request whose response arrives with the input still open and which
\* is rejected right afterwards leaves the document as it was at submit time
\* and the completion record, the input state and loading at their initial
\* values.
RejectInvertsApply ==
    [][(arrivedFresh(last) /\ last'.op = "reject")
        => (doc' = last.before /\ completionState' = Null
            /\ inputState' = idleInput /\ loadingState' = FALSE)]_vars

\* C9: accept with a completion record present clears the record, resets
\* the input state to {false, 0, 0} and loading to false, and leaves the
\* document unchanged.
AcceptClears ==
    [][(last'.op = "accept" /\ completionState # Null)
        => (last'.ret /\ completionState' = Null /\ inputState' = idleInput
            /\ loadingState' = FALSE /\ doc' = doc)]_vars

\* C9 witness: accept ran on a pending completion.
AcceptedCompletion ==
    last.op = "accept" /\ last.ret /\ completionState = Null

\* C10: with no completion record present accept and reject return false
\* and change neither the document, the selection nor any state field.
AcceptRejectNoOp ==
    [][(last'.op \in {"accept", "reject"} /\ completionState = Null)
        => (~last'.ret
            /\ UNCHANGED <<doc, sel, tooltipState, inputState, loadingState,
                           completionState>>)]_vars

\* C10 witness: reject returned false while the input was open and a request
\* was in flight.
RejectWithoutCompletion ==
    /\ last.op = "reject" /\ ~last.ret
    /\ inputState.show /\ loadingState /\ requests # EmptyBag

\* C11: with an empty main selection the hotkey action returns false and
\* changes nothing, no tooltip decoration is produced, and the visibility
\* computed on a selection change is false.
EmptySelectionInert ==
    [][/\ (sel.from = sel.to /\ last'.op \in {"hotkey", "click"})
            => (~last'.ret
                /\ UNCHANGED <<doc, sel, tooltipState, inputState,
                               completionState, loadingState, requests>>)
       /\ sel'.from = sel'.to => tooltipAnchor' = -1
       /\ (last'.op = "select" /\ sel'.from = sel'.to) => ~tooltipState'
      ]_vars

\* C11 witness: the hotkey ran on an empty selection and returned false.
HotkeyOnEmptySelection ==
    last.op = "hotkey" /\ ~last.ret /\ sel.from = sel.to /\ ~inputState.show

\* Position p is the start of a line, the end of a line; no line break lies
\* between positions p and q.
startsLine(d, p) == p = 0 \/ d[p] = NL
endsLine(d, p) == p = Len(d) \/ d[p + 1] = NL
sameLine(d, p, q) == \A i \in (p + 1)..q : d[i] # NL

\* C12: on a non-empty selection [sFrom, sTo] the hotkey action returns true
\* and opens the input on [from, to], from the start of the line of sFrom
\* and to the end of the line of sTo, within the document; it puts the cursor
\* at from, hides the tooltip and leaves the document text unchanged.
HotkeyOpensLines ==
    [][(sel.from # sel.to /\ last'.op \in {"hotkey", "click"})
         => LET from == inputState'.from
                to == inputState'.to
            IN  /\ last'.ret
                /\ inputState'.show
                /\ startsLine(doc, from) /\ sameLine(doc, from, sel.from)
                /\ endsLine(doc, to) /\ sameLine(doc, sel.to, to)
                /\ from <= sel.from /\ sel.to <= to
                /\ 0 <= from /\ from <= to /\ to <= Len(doc)
                /\ sel' = cursor(from)
                /\ tooltipState' = FALSE
                /\ doc' = doc
      ]_vars

\* C12 witness: the input is open on two whole lines and the cursor is at
\* the start of the first one.
InputOpenOnLines ==
    /\ last.op = "hotkey" /\ last.ret
    /\ doc = <<"a", NL, "a">>
    /\ inputState = [show |-> TRUE, from |-> 0, to |-> 3]
    /\ sel = cursor(0)

\* C13: Escape closes the input and clears the loading flag, leaves the
\* document text unchanged and creates no completion record; while no
\* instruction has been submitted (no record, no request awaiting its
\* response), no record appears until a submit is made.
EscapeCloses ==
    [][/\ last'.op = "escape"
            => (/\ ~inputState'.show
                /\ ~loadingState'
                /\ doc' = doc
                /\ completionState' = completionState)
       /\ (completionState = Null /\ requests = EmptyBag
              /\ last'.op # "submit")
            => (completionState' = Null /\ requests' = EmptyBag)
      ]_vars

\* C13 witness: Escape was pressed in an open input while its request was
\* awaiting the response, with the loading flag set.
EscapedWhileLoading ==
    /\ last.op = "escape" /\ last.open
    /\ ~inputState.show /\ ~loadingState
    /\ \E r \in BagToSet(requests) : r.seen = "closed"

\* C14: right after a selection change has been processed, tooltipState is
\* (the selection is non-empty) and (the input is closed) and (no completion
\* record is present), all three read in the state after the change; the
\* processing changes nothing but tooltipState.
TooltipFollowsSelection ==
    [][/\ (last'.op = "select"
             \/ (last'.op \in {"hotkey", "click", "resolve"} /\ last'.ret))
            => tooltipState' = (/\ sel'.from # sel'.to
                                /\ ~inputState'.show
                                /\ completionState' = Null)
       /\ last'.op = "select"
            => UNCHANGED <<doc, inputState, completionState, loadingState,
                           requests>>
      ]_vars

\* C14 witness: a range was selected while a completion record was pending,
\* and the tooltip stayed hidden.
SelectedWithCompletionPending ==
    /\ last.op = "select"
    /\ sel.from # sel.to
    /\ ~inputState.show
    /\ completionState # Null
    /\ ~tooltipState

\* C15: at most one generation request awaits its response at any time.
OneRequestOutstanding == BagCardinality(requests) <= 1

\* The selected text consists of line breaks only.
onlyLineBreaks(d, s) == \A i \in (s.from + 1)..s.to : d[i] = NL

\* The first position from p on that is q or lies on a line with text.
skipEmptyLines(d, p, q) ==
    CHOOSE r \in p..q :
        /\ r = q \/ lineLength(d, r) # 0
        /\ \A j \in p..(r - 1) : lineLength(d, j) = 0

\* C16: a tooltip shown for the selection [from, to] is anchored at the
\* selection start after skipping leading empty lines, within [from, to) and
\* not on a zero-length line; the trimming loops end with
\* adjustedFrom <= adjustedTo; and no tooltip decoration is produced for a
\* selection whose text consists of line breaks only.
AnchorSkipsEmptyLines ==
    sel.from # sel.to =>
        LET adjustedFrom == trimFrom(doc, sel.from, sel.to)
            adjustedTo == trimTo(doc, adjustedFrom, sel.to)
        IN  /\ sel.from <= adjustedFrom
            /\ adjustedFrom <= adjustedTo
            /\ adjustedTo <= sel.to
            /\ tooltipAnchor # -1
                 => (/\ tooltipAnchor = skipEmptyLines(doc, sel.from, sel.to)
                     /\ sel.from <= tooltipAnchor
                     /\ tooltipAnchor < sel.to
                     /\ lineLength(doc, tooltipAnchor) # 0)
            /\ onlyLineBreaks(doc, sel) => tooltipAnchor = -1

\* C17: a click on the tooltip shown in an editor does what the hotkey does
\* in that editor and changes no state of another editor: a click in the
\* second editor opens its input and leaves the first editor as it is, and
\* a click in the first editor opens its input and leaves the second as it is.
ClickOpensOwnEditor ==
    [][/\ last'.op = "peerClick"
            => (/\ peer' = peerPrompted(peer)
                /\ peer'.inputState.show
                /\ UNCHANGED <<doc, sel, tooltipState, inputState,
                               completionState, loadingState, requests>>)
       /\ last'.op = "click"
            => (/\ inputState'.show
                /\ inputState'.from = lineFrom(doc, sel.from)
                /\ inputState'.to = lineTo(doc, sel.to)
                /\ peer' = peer)
      ]_vars

\* C18: a pending completion record is removed or replaced by accept and
\* reject only: no other step changes completionState once it holds a record.
CompletionKeptUntilDecided ==
    [][(completionState # Null /\ last'.op \notin {"accept", "reject"})
         => completionState' = completionState]_vars

\* C19: a result is applied to the target range inputState holds at that
\* moment, the recorded oldCode is the text the document had in that range
\* just before, and putting oldCode back over the completion's range gives
\* the document as it was before the result was applied.
ApplyUsesCurrentRange ==
    [][(last'.op = "resolve" /\ last'.ret)
         => LET c == completionState'
            IN  /\ c # Null
                /\ c.from = inputState.from
                /\ doc' = replaceRange(doc, inputState.from, inputState.to,
                                       c.newCode)
                /\ c.oldCode = sliceDoc(doc, inputState.from, inputState.to)
                /\ replaceRange(doc', c.from, c.to, c.oldCode) = doc
      ]_vars

\* C20: the loading flag is set only while the input is open.
LoadingOnlyWhileOpen == loadingState => inputState.show

\* C20 witness: Enter was pressed in the open input and the loading flag is
\* set.
LoadingInOpenInput ==
    last.op = "submit" /\ loadingState /\ inputState.show

====
